---- MODULE Spec2Model ----
(***************************************************************************)
(* Model of the Snake game of src/main.py, src/game_objects.py and         *)
(* src/settings.py: the Snake aggregate (construction, move, grow, handle, *)
(* collision queries), the apple and the frame loop of Game.run.           *)
(*                                                                         *)
(* Lengths are pixels, times are integer milliseconds.  The playfield is   *)
(* scaled down: settings.py has a 480 x 360 window of 10-pixel cells, the  *)
(* model a WidthCells x HeightCells window of CellPx-pixel cells.          *)
(***************************************************************************)
EXTENDS Integers, Sequences, FiniteSets, TLC

VARIABLES
    parts,      \* Snake.parts: sequence of [kind, x, y, direction]
    time,       \* Snake.time, milliseconds accumulated since the last step
    got_apple,  \* Snake.got_apple
    apple,      \* Apple.bounds: [x, y]
    score,      \* Game.score
    game_over,  \* Game.game_over
    first_frame,\* Game.run is in its first frame, whose dt is 0.1 s
    pc,         \* position inside the frame of Game.run
    call        \* the operation performed last, with its inputs

vars == <<parts, time, got_apple, apple, score, game_over, first_frame,
         pc, call>>

----------------------------------------------------------------------------
(* Bounds of the model *)

CellPx == 2
WidthCells == 5
HeightCells == 3
MaxInitLength == 2
MaxParts == 4
MaxScore == 1
MaxEvents == 2
MaxFrameSlots == 2
MaxSpeed == 4
MaxStepSize == 6
MaxGrowth == 8

----------------------------------------------------------------------------
(* settings.py *)

GRID_SIZE == CellPx
WINDOW_WIDTH == WidthCells * GRID_SIZE
WINDOW_HEIGHT == HeightCells * GRID_SIZE
GLOBAL_FPS == 60
SNAKE_SPEED == 20
SNAKE_INIT_LENGTH == 0
SNAKE_INIT_X == ((WINDOW_WIDTH \div 5) \div GRID_SIZE) * GRID_SIZE
SNAKE_INIT_Y == ((WINDOW_HEIGHT \div 2) \div GRID_SIZE) * GRID_SIZE

UP == 0
RIGHT == 1
DOWN == 2
LEFT == 3
KEYS == {"K_LEFT", "K_RIGHT", "K_UP", "K_DOWN"}
Directions == {UP, RIGHT, DOWN, LEFT}

(* The offset every object of SnakeGame is built with *)
offset == <<WINDOW_WIDTH, WINDOW_HEIGHT>>

----------------------------------------------------------------------------
(* Python helpers *)

(* random.randrange(start, stop, step): the set of its possible results *)
randrange(start, stop, step) ==
    {v \in start..(stop - 1) : (v - start) % step = 0}

(* list.insert(0, e): the element goes to the front of the list *)
insert0(s, e) == <<e>> \o s

(* list.insert(1, e) on a list with at least one element *)
insert1(s, e) == <<Head(s)>> \o <<e>> \o Tail(s)

----------------------------------------------------------------------------
(* GameObject *)

(* GameObject.get_velocity with the step multiplied by the speed *)
get_velocity_times_speed(direction, speed, step_size) ==
    LET sign == IF direction % 3 = 0 THEN -1 ELSE 1
        dx == (direction % 2) * sign * step_size * speed
        dy == ((direction + 1) % 2) * sign * step_size * speed
    IN  <<dx, dy>>

(* GameObject.get_velocity; (-1) ** (direction % 3 == 0) is -1 for UP and  *)
(* LEFT, 1 otherwise; round() of an integer is that integer                *)
get_velocity(direction, speed, step_size) ==
    LET sign == IF direction % 3 = 0 THEN -1 ELSE 1
        dx == (direction % 2) * sign * step_size
        dy == ((direction + 1) % 2) * sign * step_size
    IN  <<dx, dy>>

(* GameObject.move: Rect.move(dx, dy) *)
GameObject_move(o, dx, dy) == [o EXCEPT !.x = o.x + dx, !.y = o.y + dy]

(* GameObject.update of an object of the given speed *)
GameObject_update(o, speed) ==
    IF speed # 0
    THEN LET velocity == get_velocity(o.direction, speed, GRID_SIZE)
         IN  GameObject_move(o, velocity[1], velocity[2])
    ELSE o

(* The Rect properties, every object being GRID_SIZE wide and high *)
left(o) == o.x
right(o) == o.x + GRID_SIZE
top(o) == o.y
bottom(o) == o.y + GRID_SIZE

(* pygame Rect.colliderect: the interiors intersect *)
colliderect(a, b) ==
    /\ left(a) < right(b)
    /\ left(b) < right(a)
    /\ top(a) < bottom(b)
    /\ top(b) < bottom(a)

----------------------------------------------------------------------------
(* SnakePart, Snake *)

SnakePart(kind, x, y, direction) ==
    [kind |-> kind, x |-> x, y |-> y, direction |-> direction]

RECURSIVE AddBody(_, _, _, _, _)
(* The loop "for _ in range(length): self.parts.insert(1, SnakeBody(...))" *)
AddBody(ps, n, x, y, direction) ==
    IF n = 0 THEN ps
    ELSE AddBody(insert1(ps, SnakePart("SnakeBody", x, y, direction)),
                 n - 1, x, y, direction)

(* ShiftBody with every trailing part moved back by one step only *)
ShiftBody_one_step(ps, direction, speed) ==
    LET velocity == get_velocity(direction, speed, GRID_SIZE)
    IN  [j \in 1..Len(ps) |->
            IF j = 1 THEN ps[j]
            ELSE GameObject_move(ps[j], -velocity[1], -velocity[2])]

(* The loop "for i in range(1, len(self.parts))": part i (counted from 0)  *)
(* moves by -i times the velocity                                          *)
ShiftBody(ps, direction, speed) ==
    LET velocity == get_velocity(direction, speed, GRID_SIZE)
    IN  [j \in 1..Len(ps) |->
            IF j = 1 THEN ps[j]
            ELSE GameObject_move(ps[j], -velocity[1] * (j - 1),
                                        -velocity[2] * (j - 1))]

(* Snake.__init__: the parts list it builds *)
Snake_init(x, y, direction, length) ==
    ShiftBody(AddBody(<<SnakePart("SnakeHead", x, y, direction),
                        SnakePart("SnakeTail", x, y, direction)>>,
                      length, x, y, direction),
              direction, SNAKE_SPEED)

RECURSIVE SwapChain(_, _, _, _, _)
(* The loop of Snake.move over parts[1:]: each part swaps its position and *)
(* direction with the temporaries                                          *)
SwapChain(ps, j, tmp_x, tmp_y, tmp_direction) ==
    IF j > Len(ps) THEN ps
    ELSE SwapChain([ps EXCEPT ![j] = [@ EXCEPT !.x = tmp_x, !.y = tmp_y,
                                               !.direction = tmp_direction]],
                   j + 1, ps[j].x, ps[j].y, ps[j].direction)

(* Snake.move with the temporaries read after the update of the head *)
Snake_move_after_update(ps) ==
    LET updated == [ps EXCEPT ![1] = GameObject_update(ps[1], SNAKE_SPEED)]
    IN  SwapChain(updated, 2, updated[1].x, updated[1].y,
                  updated[1].direction)

(* Snake.move *)
Snake_move(ps) ==
    LET head == ps[1]
        updated == [ps EXCEPT ![1] = GameObject_update(head, SNAKE_SPEED)]
    IN  SwapChain(updated, 2, head.x, head.y, head.direction)

(* Snake.grow with the body segment built after the update of the head *)
Snake_grow_after_update(ps) ==
    LET head == GameObject_update(ps[1], SNAKE_SPEED)
        body == SnakePart("SnakeBody", head.x, head.y, head.direction)
    IN  insert1([ps EXCEPT ![1] = head], body)

(* Snake.grow *)
Snake_grow(ps) ==
    LET head == ps[1]
        body == SnakePart("SnakeBody", head.x, head.y, head.direction)
        inserted == insert1(ps, body)
    IN  [inserted EXCEPT ![1] = GameObject_update(head, SNAKE_SPEED)]

(* SnakeHead.DIRECTIONS *)
DIRECTIONS(key) ==
    CASE key = "K_UP" -> UP
      [] key = "K_RIGHT" -> RIGHT
      [] key = "K_DOWN" -> DOWN
      [] key = "K_LEFT" -> LEFT

(* SnakeHead.handle taking every bound key, whatever the heading *)
SnakeHead_handle_any_key(direction, key) ==
    IF key \in {"K_LEFT", "K_RIGHT"} \/ key \in {"K_UP", "K_DOWN"}
    THEN DIRECTIONS(key)
    ELSE direction

(* SnakeHead.handle: the direction of the head after the key *)
SnakeHead_handle(direction, key) ==
    IF \/ key \in {"K_LEFT", "K_RIGHT"} /\ direction % 2 # 1
       \/ key \in {"K_UP", "K_DOWN"} /\ direction % 2 # 0
    THEN DIRECTIONS(key)
    ELSE direction

(* Snake.handle *)
Snake_handle(ps, key) ==
    [ps EXCEPT ![1].direction = SnakeHead_handle(ps[1].direction, key)]

RECURSIVE AnyCollides_but_last(_, _, _)
(* The same loop stopping one part early: the last part is never tested *)
AnyCollides_but_last(ps, from, rect) ==
    IF from >= Len(ps) THEN FALSE
    ELSE IF colliderect(ps[from], rect) THEN TRUE
    ELSE AnyCollides_but_last(ps, from + 1, rect)

RECURSIVE AnyCollides(_, _, _)
(* "for part in parts[from:]: if part.bounds.colliderect(rect): return True" *)
AnyCollides(ps, from, rect) ==
    IF from > Len(ps) THEN FALSE
    ELSE IF colliderect(ps[from], rect) THEN TRUE
    ELSE AnyCollides(ps, from + 1, rect)

(* Snake.check_collision with the head among the parts tested *)
check_collision_with_head(ps) ==
    IF \/ left(ps[1]) < 0
       \/ right(ps[1]) > offset[1]
       \/ top(ps[1]) < 0
       \/ bottom(ps[1]) > offset[2]
    THEN TRUE
    ELSE AnyCollides(ps, 1, ps[1])

(* Snake.check_collision *)
check_collision(ps) ==
    IF \/ left(ps[1]) < 0
       \/ right(ps[1]) > offset[1]
       \/ top(ps[1]) < 0
       \/ bottom(ps[1]) > offset[2]
    THEN TRUE
    ELSE AnyCollides(ps, 2, ps[1])

(* Snake.colliderect with the head left out, as check_collision does *)
Snake_colliderect_skips_head(ps, rect) == AnyCollides(ps, 2, rect)

(* Snake.colliderect *)
Snake_colliderect(ps, rect) == AnyCollides(ps, 1, rect)

(* The cadence of Snake.update: 1 / speed seconds, in milliseconds *)
StepInterval == 1000 \div SNAKE_SPEED

(* Snake.update without "self.got_apple = False" *)
Snake_update_keeps_flag(ps, t, got, d) ==
    IF t > StepInterval
    THEN IF got
         THEN [parts |-> Snake_grow(ps), got_apple |-> got, time |-> 0,
               op |-> "grow"]
         ELSE [parts |-> Snake_move(ps), got_apple |-> got, time |-> 0,
               op |-> "move"]
    ELSE [parts |-> ps, got_apple |-> got, time |-> t + d, op |-> "wait"]

(* Snake.update taking the move branch whatever the growth flag *)
Snake_update_never_grows(ps, t, got, d) ==
    IF t > StepInterval
    THEN [parts |-> Snake_move(ps), got_apple |-> FALSE, time |-> 0,
          op |-> "move"]
    ELSE [parts |-> ps, got_apple |-> got, time |-> t + d, op |-> "wait"]

(* Snake.update without "self.time = 0" after a step *)
Snake_update_keeps_time(ps, t, got, d) ==
    IF t > StepInterval
    THEN IF got
         THEN [parts |-> Snake_grow(ps), got_apple |-> FALSE, time |-> t,
               op |-> "grow"]
         ELSE [parts |-> Snake_move(ps), got_apple |-> got, time |-> t,
               op |-> "move"]
    ELSE [parts |-> ps, got_apple |-> got, time |-> t + d, op |-> "wait"]

(* Snake.update: the parts, the accumulator and the growth flag after the  *)
(* call, and the step it performed                                         *)
Snake_update(ps, t, got, d) ==
    IF t > StepInterval
    THEN IF got
         THEN [parts |-> Snake_grow(ps), got_apple |-> FALSE, time |-> 0,
               op |-> "grow"]
         ELSE [parts |-> Snake_move(ps), got_apple |-> got, time |-> 0,
               op |-> "move"]
    ELSE [parts |-> ps, got_apple |-> got, time |-> t + d, op |-> "wait"]

----------------------------------------------------------------------------
(* Apple *)

(* Apple.respawn: the positions it can choose *)
RespawnPositions ==
    {[x |-> ax, y |-> ay] : ax \in randrange(0, offset[1] - GRID_SIZE, 1),
                            ay \in randrange(0, offset[2] - GRID_SIZE, 1)}

(* The positions SnakeGame.__init__ can give the apple *)
InitApplePositions ==
    {[x |-> ax, y |-> ay] :
        ax \in randrange(0, WINDOW_WIDTH - GRID_SIZE, GRID_SIZE),
        ay \in randrange(0, WINDOW_HEIGHT - GRID_SIZE, GRID_SIZE)}

(* SnakeGame.check_apple_snake_collision *)
check_apple_snake_collision(ps, a) == colliderect(a, ps[1])

----------------------------------------------------------------------------
(* Events *)

EventKinds == KEYS \cup {"QUIT", "OTHER"}

EventQueues == UNION {[1..n -> EventKinds] : n \in 0..MaxEvents}

RECURSIVE FirstDecisive_any_event(_, _)
(* The loop of Game.handle_events without the test of the event's type and *)
(* key: every event that is not a QUIT ends the loop                       *)
FirstDecisive_any_event(q, i) ==
    IF i > Len(q) THEN "NONE"
    ELSE IF q[i] = "QUIT" THEN "QUIT"
    ELSE q[i]

RECURSIVE FirstDecisive(_, _)
(* The loop of Game.handle_events: the first event that ends it, a QUIT or *)
(* a key-down of a bound key; "NONE" when the queue holds neither          *)
FirstDecisive(q, i) ==
    IF i > Len(q) THEN "NONE"
    ELSE IF q[i] = "QUIT" THEN "QUIT"
    ELSE IF q[i] \in KEYS THEN q[i]
    ELSE FirstDecisive(q, i + 1)

(* Game.handle_events on the pending events q of a SnakeGame, whose        *)
(* key-down handlers are snake.head.handle for the four bound keys: does   *)
(* the process exit, the parts after the call and the keys dispatched      *)
handle_events(ps, q) ==
    LET e == FirstDecisive(q, 1)
    IN  [exit |-> e = "QUIT",
         parts |-> IF e \in KEYS THEN Snake_handle(ps, e) ELSE ps,
         dispatched |-> IF e \in KEYS THEN <<e>> ELSE <<>>]

(* The events that can end the loop of Game.handle_events, over all the    *)
(* queues of pending events                                                *)
DecisiveEvents == {FirstDecisive(q, 1) : q \in EventQueues}

(* The dt of the first frame *)
FIRST_DT == 100

(* Frame durations returned by clock.tick(frame_rate): a frame takes one   *)
(* or more periods of the frame rate                                       *)
FrameDts == {n * (1000 \div GLOBAL_FPS) : n \in 1..MaxFrameSlots}

----------------------------------------------------------------------------
(* SnakeGame: the frame loop of Game.run *)

Init ==
    /\ parts = Snake_init(SNAKE_INIT_X, SNAKE_INIT_Y, RIGHT, SNAKE_INIT_LENGTH)
    /\ time = 0
    /\ got_apple = FALSE
    /\ apple \in InitApplePositions
    /\ score = 0
    /\ game_over = FALSE
    /\ first_frame = TRUE
    /\ pc = "collisions"
    /\ call = [op |-> "init", x |-> SNAKE_INIT_X, y |-> SNAKE_INIT_Y,
               direction |-> RIGHT, length |-> SNAKE_INIT_LENGTH]

(* SnakeGame.handle_collisions up to the call of the apple handler *)
HandleCollisions ==
    /\ pc = "collisions"
    /\ check_apple_snake_collision(parts, apple) => score < MaxScore
    /\ game_over' = (game_over \/ check_collision(parts))
    /\ pc' = IF check_apple_snake_collision(parts, apple)
             THEN "get_apple" ELSE "events"
    /\ call' = [op |-> "handle_collisions",
                wall |-> check_collision(parts),
                apple |-> check_apple_snake_collision(parts, apple)]
    /\ UNCHANGED <<parts, time, got_apple, apple, score, first_frame>>

(* One iteration of the loop with an Apple.respawn that draws a new x and  *)
(* leaves y as it is                                                       *)
Respawn_x_only ==
    /\ pc = "get_apple"
    /\ Snake_colliderect(parts, apple)
    /\ apple' \in {p \in RespawnPositions : p.y = apple.y}
    /\ UNCHANGED <<parts, time, got_apple, score, game_over, first_frame, pc, call>>

(* SnakeGame.get_apple: one iteration of its while loop *)
Respawn ==
    /\ pc = "get_apple"
    /\ Snake_colliderect(parts, apple)
    /\ apple' \in RespawnPositions
    /\ UNCHANGED <<parts, time, got_apple, score, game_over, first_frame, pc, call>>

(* SnakeGame.get_apple: the loop is left and the handler returns *)
GetAppleReturn ==
    /\ pc = "get_apple"
    /\ ~Snake_colliderect(parts, apple)
    /\ got_apple' = TRUE
    /\ score' = score + 1
    /\ pc' = "events"
    /\ UNCHANGED <<parts, time, apple, game_over, first_frame, call>>

(* Game.handle_events on a queue of pending events: what it does depends   *)
(* on the queue through the event that ends its loop                       *)
HandleEvents ==
    /\ pc = "events"
    /\ \E e \in DecisiveEvents :
        /\ pc' = IF e = "QUIT" THEN "exit" ELSE "update"
        /\ parts' = IF e \in KEYS THEN Snake_handle(parts, e) ELSE parts
        /\ call' = [op |-> "handle_events"]
    /\ UNCHANGED <<time, got_apple, apple, score, game_over, first_frame>>

(* The dt Game.run passes to update in this frame: 0.1 s in the first      *)
(* frame, then what clock.tick returned at the end of the frame before     *)
FrameDt == IF first_frame THEN {FIRST_DT} ELSE FrameDts

(* The rest of the frame.  Game.update: Snake.update(dt), then              *)
(* Apple.update(dt), which does nothing for an object of speed 0; then     *)
(* draw, display.update and clock.tick, and the test of the while loop     *)
Update ==
    /\ pc = "update"
    /\ \E d \in FrameDt :
        LET u == Snake_update(parts, time, got_apple, d)
        IN  /\ parts' = u.parts
            /\ time' = u.time
            /\ got_apple' = u.got_apple
            /\ call' = [op |-> u.op]
    /\ first_frame' = FALSE
    /\ pc' = IF game_over THEN "over" ELSE "collisions"
    /\ UNCHANGED <<apple, score, game_over>>

Next ==
    \/ HandleCollisions
    \/ Respawn
    \/ GetAppleReturn
    \/ HandleEvents
    \/ Update

Spec == Init /\ [][Next]_vars

----------------------------------------------------------------------------
(* The Snake class on its own: a snake built by Snake.__init__ from any    *)
(* arguments, then any sequence of calls of move, grow and handle          *)

InitCoordsX == randrange(0, WINDOW_WIDTH, GRID_SIZE)
InitCoordsY == randrange(0, WINDOW_HEIGHT, GRID_SIZE)

(* The head stays within one cell of the playfield *)
InRange(ps) ==
    /\ ps[1].x \in (-GRID_SIZE)..WINDOW_WIDTH
    /\ ps[1].y \in (-GRID_SIZE)..WINDOW_HEIGHT

SnakeInit ==
    /\ \E x \in InitCoordsX, y \in InitCoordsY,
          direction \in Directions, length \in 0..MaxInitLength :
        /\ parts = Snake_init(x, y, direction, length)
        /\ call = [op |-> "init", x |-> x, y |-> y,
                   direction |-> direction, length |-> length]
    /\ time = 0
    /\ got_apple = FALSE
    /\ apple = [x |-> 0, y |-> 0]
    /\ score = 0
    /\ game_over = FALSE
    /\ first_frame = TRUE
    /\ pc = "api"

CallMove ==
    /\ pc = "api"
    /\ InRange(Snake_move(parts))
    /\ parts' = Snake_move(parts)
    /\ call' = [op |-> "move"]
    /\ UNCHANGED <<time, got_apple, apple, score, game_over, first_frame, pc>>

CallGrow ==
    /\ pc = "api"
    /\ Len(parts) < MaxParts
    /\ InRange(Snake_grow(parts))
    /\ parts' = Snake_grow(parts)
    /\ call' = [op |-> "grow"]
    /\ UNCHANGED <<time, got_apple, apple, score, game_over, first_frame, pc>>

CallHandle ==
    /\ pc = "api"
    /\ \E key \in KEYS :
        /\ parts' = Snake_handle(parts, key)
        /\ call' = [op |-> "handle", key |-> key]
    /\ UNCHANGED <<time, got_apple, apple, score, game_over, first_frame, pc>>

SnakeNext ==
    \/ CallMove
    \/ CallGrow
    \/ CallHandle

SnakeSpec == SnakeInit /\ [][SnakeNext]_vars

----------------------------------------------------------------------------
(* GameObject.get_velocity on its own: the static method called with any   *)
(* direction, speed and step size                                          *)

Speeds == 0..MaxSpeed
StepSizes == 1..MaxStepSize

VelocityInit ==
    /\ parts = Snake_init(SNAKE_INIT_X, SNAKE_INIT_Y, RIGHT, SNAKE_INIT_LENGTH)
    /\ time = 0
    /\ got_apple = FALSE
    /\ apple = [x |-> 0, y |-> 0]
    /\ score = 0
    /\ game_over = FALSE
    /\ first_frame = TRUE
    /\ pc = "api"
    /\ call = [op |-> "init", x |-> SNAKE_INIT_X, y |-> SNAKE_INIT_Y,
               direction |-> RIGHT, length |-> SNAKE_INIT_LENGTH]

CallGetVelocity ==
    /\ pc = "api"
    /\ \E direction \in Directions, speed \in Speeds, step_size \in StepSizes :
        call' = [op |-> "get_velocity", direction |-> direction,
                 speed |-> speed, step_size |-> step_size,
                 result |-> get_velocity(direction, speed, step_size)]
    /\ UNCHANGED <<parts, time, got_apple, apple, score, game_over,
                   first_frame, pc>>

VelocityNext == CallGetVelocity

VelocitySpec == VelocityInit /\ [][VelocityNext]_vars

----------------------------------------------------------------------------
(* Game.handle_events on its own: the event phase of one frame of a        *)
(* SnakeGame, on any queue of pending events                               *)

EventsInit ==
    /\ \E x \in InitCoordsX, y \in InitCoordsY,
          direction \in Directions, length \in 0..MaxInitLength :
        /\ parts = Snake_init(x, y, direction, length)
        /\ call = [op |-> "init", x |-> x, y |-> y,
                   direction |-> direction, length |-> length]
    /\ time = 0
    /\ got_apple = FALSE
    /\ apple = [x |-> 0, y |-> 0]
    /\ score = 0
    /\ game_over \in BOOLEAN
    /\ first_frame = TRUE
    /\ pc = "events"

PollEvents ==
    /\ pc = "events"
    /\ \E q \in EventQueues :
        LET r == handle_events(parts, q)
        IN  /\ parts' = r.parts
            /\ pc' = IF r.exit THEN "exit" ELSE "update"
            /\ call' = [op |-> "handle_events", queue |-> q,
                        dispatched |-> r.dispatched]
    /\ UNCHANGED <<time, got_apple, apple, score, game_over, first_frame>>

EventsNext == PollEvents

EventsSpec == EventsInit /\ [][EventsNext]_vars

----------------------------------------------------------------------------
(* SnakeGame.get_apple on its own: the apple handler invoked with the head *)
(* on the apple, for the snake of a game that has grown without a         *)
(* collision                                                               *)

(* The snakes a grow step makes of the snake qs when the player keeps the  *)
(* heading while the cell ahead is free and turns when it is not           *)
GrowAhead(qs) ==
    IF ~check_collision(Snake_grow(qs))
    THEN {Snake_grow(qs)}
    ELSE {ps \in {Snake_grow(Snake_handle(qs, key)) : key \in KEYS} :
            ~check_collision(ps)}

RECURSIVE GrownSnakes(_, _)
(* The snakes reached from those of S by at most n such grow steps *)
GrownSnakes(S, n) ==
    IF n = 0 THEN S
    ELSE S \cup GrownSnakes(UNION {GrowAhead(qs) : qs \in S}, n - 1)

(* The snake SnakeGame.__init__ builds *)
GameSnake ==
    Snake_init(SNAKE_INIT_X, SNAKE_INIT_Y, RIGHT, SNAKE_INIT_LENGTH)

AppleInit ==
    /\ parts \in GrownSnakes({GameSnake}, MaxGrowth)
    /\ apple \in {p \in RespawnPositions :
                    check_apple_snake_collision(parts, p)}
    /\ time = 0
    /\ got_apple = FALSE
    /\ score = 0
    /\ game_over = FALSE
    /\ first_frame = FALSE
    /\ pc = "get_apple"
    /\ call = [op |-> "handle_collisions", wall |-> check_collision(parts),
               apple |-> TRUE]

AppleNext ==
    \/ Respawn
    \/ GetAppleReturn

(* Apple.respawn drawing a position that overlaps no snake part *)
RespawnFree ==
    /\ Respawn
    /\ ~Snake_colliderect(parts, apple')

(* random.randrange is fair: every position that can be drawn again and    *)
(* again is drawn, so a retry loop that goes on while some position is     *)
(* free draws a free one; and a loop whose condition is false is left      *)
AppleFairness ==
    /\ WF_vars(RespawnFree)
    /\ WF_vars(GetAppleReturn)

AppleSpec == AppleInit /\ [][AppleNext]_vars /\ AppleFairness

----------------------------------------------------------------------------
(* Vocabulary of the properties *)

(* The lookup table {UP: (0,-1), RIGHT: (1,0), DOWN: (0,1), LEFT: (-1,0)} *)
UnitVector(d) ==
    CASE d = UP -> <<0, -1>>
      [] d = RIGHT -> <<1, 0>>
      [] d = DOWN -> <<0, 1>>
      [] d = LEFT -> <<-1, 0>>

(* The position one grid step from p in direction d, n times *)
StepsFrom(p, d, n) ==
    [x |-> p.x + n * UnitVector(d)[1] * GRID_SIZE,
     y |-> p.y + n * UnitVector(d)[2] * GRID_SIZE]

Pos(o) == [x |-> o.x, y |-> o.y]

Abs(n) == IF n < 0 THEN -n ELSE n

(* Two boxes of the grid cell size share an inner point *)
Overlap(a, b) == Abs(a.x - b.x) < GRID_SIZE /\ Abs(a.y - b.y) < GRID_SIZE

(* The box lies inside the playfield *)
Inside(o) ==
    /\ o.x >= 0
    /\ o.x + GRID_SIZE <= WINDOW_WIDTH
    /\ o.y >= 0
    /\ o.y + GRID_SIZE <= WINDOW_HEIGHT

Perpendicular(a, b) ==
    UnitVector(a)[1] * UnitVector(b)[1]
        + UnitVector(a)[2] * UnitVector(b)[2] = 0

Opposite(a, b) ==
    /\ UnitVector(a)[1] + UnitVector(b)[1] = 0
    /\ UnitVector(a)[2] + UnitVector(b)[2] = 0

(* Every trailing part lies one grid step behind its predecessor, against  *)
(* its own direction: the chain is the path of the head                    *)
Chained(ps) ==
    \A i \in 2..Len(ps) : Pos(ps[i - 1]) = StepsFrom(Pos(ps[i]), ps[i].direction, 1)

----------------------------------------------------------------------------
(* Properties of the Snake class, checked under SnakeSpec *)

(* C1: a move tick advances the head by one grid step in its direction and *)
(* gives every part i >= 1 the position and the direction part i-1 had     *)
(* before the tick; so the trailing parts stay on the path of the head,    *)
(* whatever direction changes are interleaved.                             *)
C1_MoveFollowsLeader ==
    [][/\ call'.op = "move" =>
            /\ Len(parts') = Len(parts)
            /\ Pos(parts'[1]) = StepsFrom(Pos(parts[1]), parts[1].direction, 1)
            /\ parts'[1].direction = parts[1].direction
            /\ \A i \in 2..Len(parts) :
                /\ Pos(parts'[i]) = Pos(parts[i - 1])
                /\ parts'[i].direction = parts[i - 1].direction
            /\ \A i \in 1..Len(parts) : parts'[i].kind = parts[i].kind
       /\ Chained(parts) /\ Chained(parts')]_vars

(* A move has just been made by a snake that turned twice: the tail still  *)
(* heads the way the head went three cells earlier                         *)
C1_Witness ==
    /\ call.op = "move"
    /\ Len(parts) = 4
    /\ Perpendicular(parts[2].direction, parts[3].direction)
    /\ Perpendicular(parts[3].direction, parts[4].direction)

(* C2: a grow tick adds exactly one part, a body segment at index 1 with   *)
(* the head's pre-tick position and direction, advances the head by one    *)
(* grid step and leaves every other part as it was.                        *)
C2_GrowInsertsBehindHead ==
    [][call'.op = "grow" =>
            /\ Len(parts') = Len(parts) + 1
            /\ parts'[2] = [kind |-> "SnakeBody", x |-> parts[1].x,
                            y |-> parts[1].y,
                            direction |-> parts[1].direction]
            /\ parts'[1].kind = "SnakeHead"
            /\ Pos(parts'[1]) = StepsFrom(Pos(parts[1]), parts[1].direction, 1)
            /\ parts'[1].direction = parts[1].direction
            /\ \A i \in 2..Len(parts) : parts'[i + 1] = parts[i]]_vars

(* A snake of head and tail only has just grown *)
C2_Witness ==
    /\ call.op = "grow"
    /\ Len(parts) = 3
    /\ parts[3].kind = "SnakeTail"

(* C3: Snake.__init__ with length L builds L+2 parts, the head first at    *)
(* (x, y), the tail last, part i lying i grid steps behind the head along  *)
(* the initial heading with the initial direction, no two overlapping.     *)
C3_Construction ==
    call.op = "init" =>
        /\ Len(parts) = call.length + 2
        /\ parts[1].kind = "SnakeHead"
        /\ Pos(parts[1]) = [x |-> call.x, y |-> call.y]
        /\ parts[Len(parts)].kind = "SnakeTail"
        /\ \A i \in 2..(Len(parts) - 1) : parts[i].kind = "SnakeBody"
        /\ \A i \in 1..Len(parts) :
            /\ Pos(parts[i]) = StepsFrom([x |-> call.x, y |-> call.y],
                                         call.direction, -(i - 1))
            /\ parts[i].direction = call.direction
        /\ \A i, j \in 1..Len(parts) : i # j => ~Overlap(parts[i], parts[j])

(* A snake built heading up with the longest body *)
C3_Witness ==
    /\ call.op = "init"
    /\ call.length = MaxInitLength
    /\ call.direction = UP
    /\ Len(parts) = MaxInitLength + 2

(* C5: the key handler sets the head's direction to the key's direction if *)
(* and only if that direction is perpendicular to the current one, and     *)
(* changes no position, no other part's direction, neither the accumulator *)
(* nor the growth flag.                                                    *)
C5_PerpendicularTurnsOnly ==
    [][call'.op = "handle" =>
            /\ parts'[1].direction =
                    IF Perpendicular(DIRECTIONS(call'.key), parts[1].direction)
                    THEN DIRECTIONS(call'.key)
                    ELSE parts[1].direction
            /\ Len(parts') = Len(parts)
            /\ \A i \in 1..Len(parts) :
                /\ Pos(parts'[i]) = Pos(parts[i])
                /\ parts'[i].kind = parts[i].kind
            /\ \A i \in 2..Len(parts) : parts'[i].direction = parts[i].direction
            /\ time' = time
            /\ got_apple' = got_apple]_vars

(* LEFT has just been refused to the head of a bent snake going RIGHT *)
C5_Witness ==
    /\ call.op = "handle"
    /\ call.key = "K_LEFT"
    /\ parts[1].direction = RIGHT
    /\ Len(parts) >= 3
    /\ parts[2].direction = UP

(* C7: check_collision is true exactly when the head's box leaves the      *)
(* playfield or overlaps a part of index >= 1; the head is not tested      *)
(* against itself, and a freshly built snake inside the playfield does not *)
(* collide.                                                                *)
C7_CheckCollision ==
    /\ check_collision(parts) <=>
            \/ parts[1].x < 0
            \/ parts[1].x + GRID_SIZE > WINDOW_WIDTH
            \/ parts[1].y < 0
            \/ parts[1].y + GRID_SIZE > WINDOW_HEIGHT
            \/ \E i \in 2..Len(parts) : Overlap(parts[1], parts[i])
    /\ (call.op = "init" /\ \A i \in 1..Len(parts) : Inside(parts[i]))
            => ~check_collision(parts)

(* The head, inside the playfield, lies on the tail and the check is true *)
C7_Witness ==
    /\ Inside(parts[1])
    /\ Overlap(parts[1], parts[Len(parts)])
    /\ Len(parts) >= 3
    /\ check_collision(parts)

----------------------------------------------------------------------------
(* Properties of the running game, checked under Spec *)

(* The step Snake.update performs in the update phase of this frame *)
StepOp == Snake_update(parts, time, got_apple, 0).op

(* The head has left the cell it was built in: a step has been performed *)
HasStepped == Pos(parts[1]) # [x |-> SNAKE_INIT_X, y |-> SNAKE_INIT_Y]

C6_NoReversal ==
    (pc = "update" /\ ~game_over /\ HasStepped /\ StepOp # "wait")
        => ~Opposite(parts[1].direction, parts[2].direction)

(* C8: the game-over flag is set only by a collision dispatch that finds   *)
(* check_collision true, is never cleared, and once it is set no part      *)
(* position, snake length, accumulator, growth flag, apple position or     *)
(* score changes.                                                          *)
C8_OverStopsUpdates ==
    [][/\ game_over' # game_over =>
            pc = "collisions" /\ check_collision(parts) /\ game_over'
       /\ game_over =>
            /\ game_over'
            /\ Len(parts') = Len(parts)
            /\ \A i \in 1..Len(parts) : Pos(parts'[i]) = Pos(parts[i])
            /\ time' = time
            /\ got_apple' = got_apple
            /\ apple' = apple
            /\ score' = score]_vars

(* C9: a frame that starts with the head on the apple dispatches the apple *)
(* handler, which leaves the score one higher, the apple off the head and  *)
(* the growth flag set; the flag stays set until the next step, which is   *)
(* grow and clears it; a step with the flag clear is move and keeps the    *)
(* number of parts.                                                        *)
C9_AppleThenGrow ==
    [][/\ (pc = "update" /\ ~game_over) => pc' = "collisions" /\ apple' = apple
       /\ (pc = "collisions" /\ Overlap(parts[1], apple)) =>
            pc' = "get_apple" /\ score' = score /\ parts' = parts
       /\ (pc = "get_apple" /\ pc' = "get_apple") =>
            score' = score /\ got_apple' = got_apple /\ parts' = parts
       /\ (pc = "get_apple" /\ pc' # "get_apple") =>
            /\ pc' = "events"
            /\ score' = score + 1
            /\ got_apple'
            /\ ~Overlap(parts'[1], apple')
       /\ score' # score => pc = "get_apple"
       /\ (got_apple /\ ~(pc = "update" /\ StepOp # "wait")) => got_apple'
       /\ (pc = "update" /\ StepOp # "wait") =>
            IF got_apple
            THEN /\ call'.op = "grow"
                 /\ Len(parts') = Len(parts) + 1
                 /\ ~got_apple'
            ELSE /\ call'.op = "move"
                 /\ Len(parts') = Len(parts)
                 /\ ~got_apple']_vars

(* The apple was eaten and the next step was grow, which cleared the flag *)
C9_Witness ==
    /\ pc = "collisions"
    /\ call.op = "grow"
    /\ score = 1
    /\ ~got_apple
    /\ Len(parts) = SNAKE_INIT_LENGTH + 3

(* C10: when get_apple returns, the apple overlaps no snake part. *)
C10_AppleOffSnake ==
    (pc = "events" /\ call.op = "handle_collisions" /\ call.apple)
        => \A i \in 1..Len(parts) : ~Overlap(apple, parts[i])

(* get_apple has returned with the apple at a position off the grid *)
C10_Witness ==
    /\ pc = "events"
    /\ call.op = "handle_collisions"
    /\ call.apple
    /\ got_apple
    /\ apple.x % GRID_SIZE # 0

(* C11: after every Apple.respawn the apple is grid-aligned: its x and its *)
(* y are multiples of the grid cell size, so that in every reachable state *)
(* the apple occupies exactly one cell.                                    *)
C11_AppleGridAligned ==
    /\ apple.x % GRID_SIZE = 0
    /\ apple.y % GRID_SIZE = 0

----------------------------------------------------------------------------
(* Properties of get_velocity, checked under VelocitySpec *)

(* C12: for each of the four directions and every step magnitude m > 0,    *)
(* get_velocity returns UP -> (0,-m), RIGHT -> (m,0), DOWN -> (0,m),       *)
(* LEFT -> (-m,0): the lookup table scaled by m, whatever the speed.       *)
C12_VelocityTable ==
    call.op = "get_velocity" =>
        /\ call.result = <<UnitVector(call.direction)[1] * call.step_size,
                           UnitVector(call.direction)[2] * call.step_size>>
        /\ call.direction = UP => call.result = <<0, -call.step_size>>
        /\ call.direction = RIGHT => call.result = <<call.step_size, 0>>
        /\ call.direction = DOWN => call.result = <<0, call.step_size>>
        /\ call.direction = LEFT => call.result = <<-call.step_size, 0>>

(* get_velocity was called for LEFT with the largest step and speed 0 *)
C12_Witness ==
    /\ call.op = "get_velocity"
    /\ call.direction = LEFT
    /\ call.speed = 0
    /\ call.step_size = MaxStepSize
    /\ call.result = <<-MaxStepSize, 0>>

----------------------------------------------------------------------------
(* Properties of the event phase, checked under EventsSpec *)

(* The pending key-down events of bound keys, in arrival order *)
BoundKeyDowns(q) == SelectSeq(q, LAMBDA e : e \in KEYS)

(* C13: if a quit signal is among the events pending when a frame polls    *)
(* its input, the process terminates in that frame, whatever the game      *)
(* state and whatever events are queued before or after it; a quit signal  *)
(* is never discarded.                                                     *)
C13_QuitAlwaysExits ==
    (call.op = "handle_events"
        /\ \E i \in 1..Len(call.queue) : call.queue[i] = "QUIT")
        => pc = "exit"

(* C14: the event phase dispatches every pending key-down event of a bound *)
(* key, in arrival order, to the handlers registered for that key; none is *)
(* dropped without being dispatched.                                       *)
C14_EveryKeyDispatched ==
    call.op = "handle_events" => call.dispatched = BoundKeyDowns(call.queue)

(* C14 as amended: the event phase dispatches at most one key-down event:  *)
(* the first pending key-down of a bound key, provided no quit signal      *)
(* precedes it, is dispatched to the handler of the head, which turns the  *)
(* head if the key is perpendicular to its direction; every event pending  *)
(* after it is discarded without being dispatched.                         *)
C14_FirstKeyOnly ==
    [][call'.op = "handle_events" =>
        LET q == call'.queue
            first == {i \in 1..Len(q) :
                        /\ q[i] \in KEYS
                        /\ \A j \in 1..(i - 1) : q[j] \notin KEYS \cup {"QUIT"}}
        IN  IF first # {}
            THEN \E i \in first :
                    /\ call'.dispatched = <<q[i]>>
                    /\ pc' = "update"
                    /\ parts' = [parts EXCEPT ![1].direction =
                            IF Perpendicular(DIRECTIONS(q[i]), parts[1].direction)
                            THEN DIRECTIONS(q[i]) ELSE parts[1].direction]
            ELSE /\ call'.dispatched = <<>>
                 /\ parts' = parts]_vars

(* Two bound keys were pending: UP was dispatched to a head going RIGHT    *)
(* and turned it, LEFT was dropped                                         *)
C14_Witness ==
    /\ call.op = "handle_events"
    /\ call.queue = <<"K_UP", "K_LEFT">>
    /\ call.dispatched = <<"K_UP">>
    /\ parts[1].direction = UP
    /\ parts[2].direction = RIGHT

----------------------------------------------------------------------------
(* Further properties of the running game, checked under Spec *)

(* C15: in every reachable state of a game started from the configured     *)
(* initial position the snake has at least 2 parts, the part at index 0 is *)
(* the only head, the part at the last index the only tail, every part in  *)
(* between a body segment, and the x and y of every part are multiples of  *)
(* the grid cell size.                                                     *)
C15_SnakeShape ==
    /\ Len(parts) >= 2
    /\ \A i \in 1..Len(parts) :
        /\ parts[i].kind = "SnakeHead" <=> i = 1
        /\ parts[i].kind = "SnakeTail" <=> i = Len(parts)
        /\ parts[i].kind = "SnakeBody" <=> (1 < i /\ i < Len(parts))
        /\ parts[i].x % GRID_SIZE = 0
        /\ parts[i].y % GRID_SIZE = 0

(* A snake that has grown and turned has just moved, the tail included *)
C15_Witness ==
    /\ call.op = "move"
    /\ Len(parts) = SNAKE_INIT_LENGTH + 3
    /\ parts[1].direction # RIGHT
    /\ parts[Len(parts)].x > SNAKE_INIT_X

(* The head shares its cell with another part *)
HeadOnPart == \E i \in 2..Len(parts) : Overlap(parts[1], parts[i])

(* C16: no two distinct non-head parts occupy the same cell, and the head  *)
(* occupies the cell of another part only between the step that moved it   *)
(* there and the collision dispatch that follows, which sets game over;    *)
(* for every sequence of key presses, moves and grows, the snake of head   *)
(* and tail included.                                                      *)
C16_NoSharedCell ==
    /\ \A i, j \in 2..Len(parts) : i # j => ~Overlap(parts[i], parts[j])
    /\ HeadOnPart =>
            \/ game_over
            \/ pc = "collisions" /\ call.op \in {"move", "grow"}

(* A step has put the head on the tail and the dispatch has not run yet *)
C16_Witness ==
    /\ pc = "collisions"
    /\ ~game_over
    /\ call.op = "move"
    /\ Len(parts) = SNAKE_INIT_LENGTH + 3
    /\ Pos(parts[1]) = Pos(parts[Len(parts)])

----------------------------------------------------------------------------
(* Properties of get_apple, checked under AppleSpec *)

(* Some in-range apple position overlaps no snake part *)
FreePositionExists ==
    \E p \in RespawnPositions : \A i \in 1..Len(parts) : ~Overlap(p, parts[i])

(* C17: whenever get_apple is invoked in a state where at least one        *)
(* in-range apple position overlaps no snake part, its respawn retry loop  *)
(* eventually terminates, the random choice being fair.                    *)
C17_RespawnTerminates ==
    (pc = "get_apple" /\ FreePositionExists) ~> (pc # "get_apple")

(* get_apple has returned after a respawn, for a snake of four parts or    *)
(* more that leaves a position free                                        *)
C17_Witness ==
    /\ pc = "events"
    /\ got_apple
    /\ score = 1
    /\ Len(parts) >= 4
    /\ FreePositionExists
    /\ ~Overlap(apple, parts[1])

(* C18: when food must be respawned on a board with no position free of    *)
(* the snake, the game does not hang: the number of respawn retries is     *)
(* bounded and the handler comes to an end, reporting that there is no     *)
(* space to place food.                                                    *)
C18_NoHangOnFullBoard ==
    (pc = "get_apple" /\ ~FreePositionExists) ~> (pc # "get_apple")

----------------------------------------------------------------------------
(* Properties of the apple and the score in the running game, checked      *)
(* under Spec                                                              *)

(* C19: in every reachable state of a SnakeGame, the state the constructor *)
(* produces with its random apple placement included, the apple's box      *)
(* overlaps no non-head snake part (body segment or tail).                 *)
C19_AppleOffBody ==
    \A i \in 2..Len(parts) : ~Overlap(apple, parts[i])

(* C20: in every reachable state of a SnakeGame the number of snake parts  *)
(* is the initial number of parts plus the score, minus 1 while the growth *)
(* flag is set: each score increment produces exactly one later growth,    *)
(* the flag is never set again while it is pending (the apple handler is   *)
(* only entered with the flag clear), and the snake never grows without a  *)
(* score increment.                                                        *)
C20_LengthTracksScore ==
    /\ Len(parts) = SNAKE_INIT_LENGTH + 2 + score
                        - (IF got_apple THEN 1 ELSE 0)
    /\ (pc \in {"collisions", "get_apple"}
            /\ check_apple_snake_collision(parts, apple)) => ~got_apple

(* The second apple is under the head of a snake that has grown once *)
C20_Witness ==
    /\ pc = "collisions"
    /\ check_apple_snake_collision(parts, apple)
    /\ score = 1
    /\ ~got_apple
    /\ Len(parts) = SNAKE_INIT_LENGTH + 3

(* C21: the snake never performs a move or grow step from a state in which *)
(* check_collision is true: the accumulator is 0 after a step, so no step  *)
(* is taken in the frame after a step, and every frame runs the collision  *)
(* dispatch before the update phase, so a wall or self collision produced  *)
(* by a step sets game over in the next frame before any further step,     *)
(* whatever the frame durations.                                           *)
C21_NoStepAfterCollision ==
    /\ (pc = "update" /\ StepOp # "wait") =>
            ~check_collision(parts) /\ ~game_over
    /\ (pc = "collisions" /\ call.op \in {"move", "grow"}) => time = 0
    /\ (pc \in {"collisions", "get_apple", "events", "update"} /\ time = 0)
            => StepOp = "wait"
    /\ (check_collision(parts) /\ pc # "collisions") => game_over
    /\ game_over => check_collision(parts)

(* A step took the head out of the playfield; the next frame set game over *)
(* and its update phase only accumulated the frame time                    *)
C21_Witness ==
    /\ pc = "over"
    /\ game_over
    /\ ~Inside(parts[1])
    /\ call.op = "wait"
    /\ time \in FrameDts

====
